---- MODULE Spec2Model ----
(***************************************************************************)
(* Model of src/dxf_app.py: loop extraction from a DXF modelspace, region  *)
(* construction, hatch-line generation by rotate / scan / unrotate, and    *)
(* the extraction of the boundary geometries that are re-drawn.            *)
(*                                                                         *)
(* Geometry.  Coordinates are integers.  The plane is cut into square      *)
(* cells of side 2 whose corners have even coordinates; each cell is cut   *)
(* by its two diagonals into four closed triangles "N", "E", "S", "W"      *)
(* (named after the cell side they rest on).  A Shapely geometry with      *)
(* area (Polygon / MultiPolygon) is the set of triangles it covers, a      *)
(* triangle being <<i, j, d>> for the cell [2i, 2i+2] x [2j, 2j+2].        *)
(* Every shape of the model has its vertices on cell corners or cell       *)
(* centres and its edges along cell sides or cell diagonals, so the        *)
(* representation is exact.  Point(c).buffer(r, resolution) is modelled    *)
(* at resolution 1, where the buffer polygon is the square with vertices   *)
(* (cx+r, cy), (cx, cy-r), (cx-r, cy), (cx, cy+r).  Angles are multiples   *)
(* of 90 degrees, for which affinity.rotate is exact (it snaps a sine or   *)
(* cosine below 2.5e-16 to 0).  Iterating a MultiLineString yields its     *)
(* parts (Shapely 1.x, which the source is written for).                   *)
(***************************************************************************)
EXTENDS Integers, Sequences, FiniteSets, TLC

\* ------------------------------------------------------------ bounds
\* Largest circle radius, in cells (a radius is 2 * k for k in 0..MaxR).
MaxR == 2
\* Largest number of entities in a modelspace drawn freely from the catalogue.
MaxEntities == 2
\* Largest line spacing handed to make_hatch_lines.
MaxSpacing == 3

\* Significant bits of a float: the model's stand-in for the 53 bits of a
\* Python float.  Every coordinate of the geometry stays below 2^MantissaBits,
\* where float arithmetic on integers is exact.
MantissaBits == 5

\* Half-width of the grid, in cells: every shape and every rotation of it fits.
Grid == MaxR + 2

\* Python's None: for an exception, a geometry, a bounds tuple, a segment
\* list and the written drawing.
None == "None"
NoGeom == {<<0, 0, "None">>}
NoBounds == <<>>
NoSegments == <<<<>>>>
NoOutput == [boundaries |-> <<>>, lines |-> NoSegments]

Abs(n) == IF n < 0 THEN -n ELSE n

Dirs == {"N", "E", "S", "W"}

AllTris == {<<i, j, d>> : i \in -Grid..(Grid - 1), j \in -Grid..(Grid - 1), d \in Dirs}

\* A point strictly inside triangle t, in doubled coordinates.
TriProbe(t) ==
    LET X == 4 * t[1]
        Y == 4 * t[2]
    IN  CASE t[3] = "S" -> <<X + 2, Y + 1>>
          [] t[3] = "N" -> <<X + 2, Y + 3>>
          [] t[3] = "W" -> <<X + 1, Y + 2>>
          [] t[3] = "E" -> <<X + 3, Y + 2>>

\* Whether the point with doubled coordinates (X, Y) lies in the closed triangle t.
InTri2(t, X, Y) ==
    LET u == X - 4 * t[1]
        v == Y - 4 * t[2]
    IN  /\ u >= 0 /\ u <= 4 /\ v >= 0 /\ v <= 4
        /\ CASE t[3] = "S" -> v <= u /\ v <= 4 - u
             [] t[3] = "N" -> v >= u /\ v >= 4 - u
             [] t[3] = "W" -> u <= v /\ u <= 4 - v
             [] t[3] = "E" -> u >= v /\ u >= 4 - v

\* geometry.contains-or-touches(Point(x, y)), doubled coordinates.
Covers2(geom, X, Y) == \E t \in geom : InTri2(t, X, Y)

Covers(geom, x, y) == Covers2(geom, 2 * x, 2 * y)

\* Point(cx, cy).buffer(r): the buffer polygon of a point.
Buffer(cx, cy, r) ==
    {t \in AllTris : Abs(TriProbe(t)[1] - 2 * cx) + Abs(TriProbe(t)[2] - 2 * cy) < 2 * r}

\* ------------------------------------------------------------ Polygon(points)

\* The ring of a point list: an explicit closing point is dropped.
Ring(points) ==
    IF Len(points) > 1 /\ points[1] = points[Len(points)]
    THEN SubSeq(points, 1, Len(points) - 1)
    ELSE points

RingNext(ring, k) == ring[(k % Len(ring)) + 1]

\* Twice the signed area of triangle a b c.
Orient(a, b, c) == (b[1] - a[1]) * (c[2] - a[2]) - (b[2] - a[2]) * (c[1] - a[1])

Sign(n) == IF n > 0 THEN 1 ELSE IF n < 0 THEN -1 ELSE 0

Min2(a, b) == IF a < b THEN a ELSE b
Max2(a, b) == IF a > b THEN a ELSE b

\* c on the closed segment a b, given that a, b, c are collinear.
OnSegment(a, b, c) ==
    /\ Min2(a[1], b[1]) <= c[1] /\ c[1] <= Max2(a[1], b[1])
    /\ Min2(a[2], b[2]) <= c[2] /\ c[2] <= Max2(a[2], b[2])

\* The closed segments a b and c d share a point.
SegmentsMeet(a, b, c, d) ==
    LET o1 == Sign(Orient(a, b, c))
        o2 == Sign(Orient(a, b, d))
        o3 == Sign(Orient(c, d, a))
        o4 == Sign(Orient(c, d, b))
    IN  \/ (o1 # o2 /\ o3 # o4)
        \/ (o1 = 0 /\ OnSegment(a, b, c))
        \/ (o2 = 0 /\ OnSegment(a, b, d))
        \/ (o3 = 0 /\ OnSegment(c, d, a))
        \/ (o4 = 0 /\ OnSegment(c, d, b))

RECURSIVE ShoelaceSum(_, _)
ShoelaceSum(ring, k) ==
    IF k > Len(ring) THEN 0
    ELSE ring[k][1] * RingNext(ring, k)[2] - RingNext(ring, k)[1] * ring[k][2]
         + ShoelaceSum(ring, k + 1)

\* Polygon(points).is_valid: the ring has an area and is simple (no two
\* edges cross or touch, consecutive edges do not fold back on each other).
IsValid(points) ==
    LET ring == Ring(points)
        n == Len(ring)
    IN  /\ n >= 3
        /\ ShoelaceSum(ring, 1) # 0
        /\ \A k \in 1..n : \A m \in (k + 1)..n :
              LET a == ring[k]
                  b == RingNext(ring, k)
                  c == ring[m]
                  d == RingNext(ring, m)
              IN  IF m = k + 1 \/ (k = 1 /\ m = n)
                  THEN LET p == IF m = k + 1 THEN a ELSE c
                           q == IF m = k + 1 THEN b ELSE d
                           r == IF m = k + 1 THEN d ELSE b
                       IN  \* p q and q r share only q
                           ~(Orient(p, q, r) = 0 /\
                             (q[1] - p[1]) * (r[1] - q[1]) + (q[2] - p[2]) * (r[2] - q[2]) <= 0)
                  ELSE ~SegmentsMeet(a, b, c, d)

\* Polygon(points).is_empty: a polygon built from coordinates is not empty.
IsEmpty(points) == Len(points) = 0

\* Whether the ray from (X, Y) towards +x crosses edge a b (doubled coordinates).
RayCrosses(a, b, X, Y) ==
    LET ax == 2 * a[1]
        ay == 2 * a[2]
        bx == 2 * b[1]
        by == 2 * b[2]
    IN  /\ (ay > Y) # (by > Y)
        /\ IF by > ay
           THEN (X - ax) * (by - ay) < (Y - ay) * (bx - ax)
           ELSE (X - ax) * (by - ay) > (Y - ay) * (bx - ax)

\* Polygon(points): the area the ring encloses.
Polygon(points) ==
    LET ring == Ring(points)
    IN  {t \in AllTris :
            Cardinality({k \in 1..Len(ring) :
                RayCrosses(ring[k], RingNext(ring, k), TriProbe(t)[1], TriProbe(t)[2])}) % 2 = 1}


\* unary_union(polys): the union of a list of polygons.
unary_union(polys) == UNION {polys[k] : k \in 1..Len(polys)}

\* outer.difference(inner)
Difference(outer, inner) == outer \ inner

\* ------------------------------------------------------------ affinity.rotate

RotDir(d) ==
    CASE d = "S" -> "E"
      [] d = "E" -> "N"
      [] d = "N" -> "W"
      [] d = "W" -> "S"

\* A quarter turn counter-clockwise about the origin: (x, y) -> (-y, x).
RotTri90(t) == <<-t[2] - 1, t[1], RotDir(t[3])>>

RotPoint90(p) == <<-p[2], p[1]>>

Quarter(deg) == (deg \div 90) % 4

\* affinity.rotate(geom, deg, origin=(0, 0)) of a geometry with area.
Rotate(geom, deg) ==
    LET k == Quarter(deg)
    IN  {CASE k = 0 -> t
           [] k = 1 -> RotTri90(t)
           [] k = 2 -> RotTri90(RotTri90(t))
           [] k = 3 -> RotTri90(RotTri90(RotTri90(t))) : t \in geom}

RotatePoint(p, deg) ==
    LET k == Quarter(deg)
    IN  CASE k = 0 -> p
          [] k = 1 -> RotPoint90(p)
          [] k = 2 -> RotPoint90(RotPoint90(p))
          [] k = 3 -> RotPoint90(RotPoint90(RotPoint90(p)))

\* affinity.rotate of the two-point LineString (xs, ys)-(xe, ye), as the
\* tuple (x1, y1, x2, y2) of its first and last coordinate.
RotateSegment(xs, ys, xe, ye, deg) ==
    LET a == RotatePoint(<<xs, ys>>, deg)
        b == RotatePoint(<<xe, ye>>, deg)
    IN  <<a[1], a[2], b[1], b[2]>>

\* ------------------------------------------------------------ geometry.bounds

SetMin(S) == CHOOSE m \in S : \A n \in S : m <= n
SetMax(S) == CHOOSE m \in S : \A n \in S : m >= n

\* (minx, miny, maxx, maxy) of a non-empty geometry.
Bounds(geom) ==
    <<2 * SetMin({t[1] : t \in geom}), 2 * SetMin({t[2] : t \in geom}),
      2 * SetMax({t[1] : t \in geom}) + 2, 2 * SetMax({t[2] : t \in geom}) + 2>>

\* ------------------------------------------------------------ intersection

\* The unit piece [x, x+1] of the line at height y lies in the geometry.
UnitIn(geom, x, y) ==
    \E t \in geom : InTri2(t, 2 * x, 2 * y) /\ InTri2(t, 2 * x + 2, 2 * y)

\* Where a maximal straight piece of the probe starts, and where one ends.
PieceStarts(geom, x_start, x_end, y) ==
    {x \in x_start..(x_end - 1) :
        UnitIn(geom, x, y) /\ ~(x > x_start /\ UnitIn(geom, x - 1, y))}

PieceEnds(geom, x_start, x_end, y) ==
    {x \in (x_start + 1)..x_end :
        UnitIn(geom, x - 1, y) /\ ~(x < x_end /\ UnitIn(geom, x, y))}

\* The k-th smallest element of a set of integers.
Kth(S, k) == CHOOSE m \in S : Cardinality({n \in S : n < m}) = k - 1

\* The maximal straight pieces <<xs, xe>> of the probe, ordered along it.
Pieces(geom, x_start, x_end, y) ==
    LET starts == PieceStarts(geom, x_start, x_end, y)
        ends   == PieceEnds(geom, x_start, x_end, y)
    IN  [k \in 1..Cardinality(starts) |-> <<Kth(starts, k), Kth(ends, k)>>]

\* rot_region.intersection(LineString([(x_start, y), (x_end, y)])): the
\* straight pieces of the probe inside the geometry and the isolated points
\* where the probe only touches it.
Intersection(geom, x_start, x_end, y) ==
    [lines  |-> Pieces(geom, x_start, x_end, y),
     points |-> {x \in x_start..x_end :
                    /\ Covers(geom, x, y)
                    /\ ~(x > x_start /\ UnitIn(geom, x - 1, y))
                    /\ ~(x < x_end /\ UnitIn(geom, x, y))}]

\* inter.is_empty
InterIsEmpty(inter) == inter.lines = <<>> /\ inter.points = {}

\* inter.geom_type of a non-empty intersection
GeomType(inter) ==
    CASE inter.points = {} /\ Len(inter.lines) = 1 -> "LineString"
      [] inter.points = {} /\ Len(inter.lines) > 1 -> "MultiLineString"
      [] inter.lines = <<>> /\ Cardinality(inter.points) = 1 -> "Point"
      [] inter.lines = <<>> /\ Cardinality(inter.points) > 1 -> "MultiPoint"
      [] OTHER -> "GeometryCollection"


\* ------------------------------------------------------------ DXF entities

\* A modelspace entity: e.dxftype(), e.dxf.center, e.dxf.radius, e.closed
\* (LWPOLYLINE), e.dxf.flags (POLYLINE), and the vertices of a polyline.
Circle(cx, cy, r) ==
    [dxftype |-> "CIRCLE", center |-> <<cx, cy>>, radius |-> r,
     closed |-> FALSE, flags |-> 0, points |-> <<>>]

LwPolyline(closed, points) ==
    [dxftype |-> "LWPOLYLINE", center |-> <<0, 0>>, radius |-> 0,
     closed |-> closed, flags |-> 0, points |-> points]

Polyline(flags, points) ==
    [dxftype |-> "POLYLINE", center |-> <<0, 0>>, radius |-> 0,
     closed |-> FALSE, flags |-> flags, points |-> points]

Line(points) ==
    [dxftype |-> "LINE", center |-> <<0, 0>>, radius |-> 0,
     closed |-> FALSE, flags |-> 0, points |-> points]

\* bool(e.dxf.flags & 1)
FlagClosed(flags) == flags % 2 = 1

\* The vertex lists of the polylines of the model.
RectFar    == <<<<4, 0>>, <<6, 0>>, <<6, 4>>, <<4, 4>>>>
BowTie     == <<<<0, 0>>, <<2, 2>>, <<2, 0>>, <<0, 2>>>>
ClosedRing == <<<<0, 0>>, <<2, 0>>, <<2, 2>>, <<0, 2>>, <<0, 0>>>>
TwoPoints  == <<<<0, 0>>, <<2, 0>>>>
Wedge      == <<<<0, 0>>, <<4, 0>>, <<2, 2>>>>
UShape     == <<<<0, 0>>, <<6, 0>>, <<6, 4>>, <<4, 4>>, <<4, 2>>, <<2, 2>>, <<2, 4>>, <<0, 4>>>>
Rect(h)    == <<<<0, 0>>, <<4, 0>>, <<4, h>>, <<0, h>>>>

\* ------------------------------------------------------------ the functions

\* spacing <= 0 passes the guard when only negative spacings are rejected.
SpacingRejectedNegativeOnly(s) == s < 0

\* make_hatch_lines: the guard on spacing.
SpacingRejected(s) == s <= 0

RECURSIVE Pow2(_)
Pow2(n) == IF n = 0 THEN 1 ELSE 2 * Pow2(n - 1)

\* The spacing of the floats around magnitude a >= 0.
RECURSIVE Ulp(_)
Ulp(a) == IF a < Pow2(MantissaBits) THEN 1 ELSE 2 * Ulp(a \div 2)

\* The float nearest to the integer n, ties to the even mantissa.
FloatRound(n) ==
    LET a == Abs(n)
        u == Ulp(a)
        q == a \div u
        r == a % u
        m == IF 2 * r > u \/ (2 * r = u /\ q % 2 = 1) THEN q + 1 ELSE q
    IN  Sign(n) * m * u

\* The generator advances by two steps.
float_range_next_double(x, step) == FloatRound(FloatRound(x + step) + step)

\* float_range: x += step, a float addition
float_range_next(x, step) == FloatRound(x + step)

\* float_range: while x <= stop + 1e-9 (integers: x <= stop)
float_range_cond(x, stop) == x <= stop

\* The loop body of extract_loop_region_from_dxf without the validity test.
LoopPolysNoValidity(e) ==
    CASE e.dxftype = "CIRCLE" ->
            IF e.radius <= 0 THEN <<>>
            ELSE <<Buffer(e.center[1], e.center[2], e.radius)>>
      [] e.dxftype = "LWPOLYLINE" ->
            IF ~e.closed THEN <<>>
            ELSE IF Len(e.points) < 3 THEN <<>>
            ELSE <<Polygon(e.points)>>
      [] e.dxftype = "POLYLINE" ->
            IF ~FlagClosed(e.flags) THEN <<>>
            ELSE IF Len(e.points) < 3 THEN <<>>
            ELSE <<Polygon(e.points)>>
      [] OTHER -> <<>>

\* extract_loop_region_from_dxf, the body of "for e in msp": what one
\* entity appends to polys (nothing when the entity is skipped).
LoopPolys(e) ==
    CASE e.dxftype = "CIRCLE" ->
            IF e.radius <= 0 THEN <<>>
            ELSE <<Buffer(e.center[1], e.center[2], e.radius)>>
      [] e.dxftype = "LWPOLYLINE" ->
            IF ~e.closed THEN <<>>
            ELSE IF Len(e.points) < 3 THEN <<>>
            ELSE IF ~IsValid(e.points) \/ IsEmpty(e.points) THEN <<>>
            ELSE <<Polygon(e.points)>>
      [] e.dxftype = "POLYLINE" ->
            IF ~FlagClosed(e.flags) THEN <<>>
            ELSE IF Len(e.points) < 3 THEN <<>>
            ELSE IF ~IsValid(e.points) \/ IsEmpty(e.points) THEN <<>>
            ELSE <<Polygon(e.points)>>
      [] OTHER -> <<>>

\* The end of extract_loop_region_from_dxf with both checks left out.
RegionResultUnchecked(polys) == [err |-> None, region |-> unary_union(polys)]

\* extract_loop_region_from_dxf after the loop: the two checks and the union.
RegionResult(polys) ==
    IF polys = <<>>
    THEN [err |-> "RuntimeError: no closed loops", region |-> NoGeom]
    ELSE IF unary_union(polys) = {}
         THEN [err |-> "RuntimeError: empty region", region |-> NoGeom]
         ELSE [err |-> None, region |-> unary_union(polys)]

\* build_annulus_region(outer_radius, inner_radius)
build_annulus_region(outer, inner) ==
    IF outer <= 0 \/ inner <= 0
    THEN [err |-> "ValueError: radius", region |-> NoGeom]
    ELSE IF inner >= outer
         THEN [err |-> "ValueError: inner >= outer", region |-> NoGeom]
         ELSE IF Difference(Buffer(0, 0, outer), Buffer(0, 0, inner)) = {}
              THEN [err |-> "RuntimeError: empty annulus", region |-> NoGeom]
              ELSE [err |-> None,
                    region |-> Difference(Buffer(0, 0, outer), Buffer(0, 0, inner))]

\* The boundary loop body without the closed test of an LWPOLYLINE.
BoundaryGeomsNoClosed(e) ==
    CASE e.dxftype = "CIRCLE" ->
            IF e.radius <= 0 THEN <<>>
            ELSE <<[type |-> "circle", center |-> e.center, radius |-> e.radius,
                    points |-> <<>>]>>
      [] e.dxftype = "LWPOLYLINE" ->
            IF Len(e.points) < 3 THEN <<>>
            ELSE <<[type |-> "polyline", center |-> <<0, 0>>, radius |-> 0,
                    points |-> e.points]>>
      [] e.dxftype = "POLYLINE" ->
            IF ~FlagClosed(e.flags) THEN <<>>
            ELSE IF Len(e.points) < 3 THEN <<>>
            ELSE <<[type |-> "polyline", center |-> <<0, 0>>, radius |-> 0,
                    points |-> e.points]>>
      [] OTHER -> <<>>

\* extract_boundary_geometries_from_dxf, the body of "for e in msp".
BoundaryGeoms(e) ==
    CASE e.dxftype = "CIRCLE" ->
            IF e.radius <= 0 THEN <<>>
            ELSE <<[type |-> "circle", center |-> e.center, radius |-> e.radius,
                    points |-> <<>>]>>
      [] e.dxftype = "LWPOLYLINE" ->
            IF ~e.closed THEN <<>>
            ELSE IF Len(e.points) < 3 THEN <<>>
            ELSE <<[type |-> "polyline", center |-> <<0, 0>>, radius |-> 0,
                    points |-> e.points]>>
      [] e.dxftype = "POLYLINE" ->
            IF ~FlagClosed(e.flags) THEN <<>>
            ELSE IF Len(e.points) < 3 THEN <<>>
            ELSE <<[type |-> "polyline", center |-> <<0, 0>>, radius |-> 0,
                    points |-> e.points]>>
      [] OTHER -> <<>>

\* One segment from the first coordinate of the first part to the last
\* coordinate of the last part.
MultiLineSegmentsSpan(lines, y, deg) ==
    <<RotateSegment(lines[1][1], y, lines[Len(lines)][2], y, deg)>>

\* make_hatch_lines, "for part in inter": one segment per part, rotated back.
MultiLineSegments(lines, y, deg) ==
    [k \in 1..Len(lines) |-> RotateSegment(lines[k][1], y, lines[k][2], y, deg)]

\* make_hatch_lines, the body of the scan loop after the intersection: the
\* segments one probe appends.
ProbeSegments(inter, y, deg) ==
    IF InterIsEmpty(inter) THEN <<>>
    ELSE IF GeomType(inter) = "LineString"
         THEN <<RotateSegment(inter.lines[1][1], y, inter.lines[1][2], y, deg)>>
         ELSE IF GeomType(inter) = "MultiLineString"
              THEN MultiLineSegments(inter.lines, y, deg)
              ELSE <<>>


\* ------------------------------------------------------------ state

VARIABLES
    mode,          \* "annulus", "dxf" (the two modes of main) or "range" (float_range alone)
    doc,           \* the modelspace of the uploaded drawing: a sequence of entities
    outer_radius,  \* annulus mode: the two radii
    inner_radius,
    spacing,       \* spacing of make_hatch_lines; step of float_range
    angle_deg,
    pc,            \* position in the program
    i,             \* index of the entity "for e in msp" is at
    polys,         \* extract_loop_region_from_dxf: polys
    poly_src,      \* history: the indices of the entities appended to polys
    region,        \* the region handed to make_hatch_lines
    rot_region,    \* make_hatch_lines: rot_region
    bounds,        \* make_hatch_lines: (minx, miny, maxx, maxy)
    x_start,       \* make_hatch_lines: the two ends of a probe
    x_end,
    y,             \* float_range: x
    y_first,       \* float_range: start
    y_stop,        \* float_range: stop
    probes,        \* history: the values float_range has yielded
    segments,      \* make_hatch_lines: segments
    geometries,    \* extract_boundary_geometries_from_dxf: geometries
    geo_src,       \* history: the indices of the entities appended to geometries
    output,        \* what create_dxf_r12_with_lines writes
    err            \* the exception raised, None when there is none

vars == <<mode, doc, outer_radius, inner_radius, spacing, angle_deg, pc, i, polys,
          poly_src, region, rot_region, bounds, x_start, x_end, y, y_first, y_stop,
          probes, segments, geometries, geo_src, output, err>>

inputs == <<mode, doc, outer_radius, inner_radius, spacing, angle_deg>>

\* How far below its start a generator with a negative step is followed.
RangeSpan == 4

Angles == {0, 90, 180, 270}

Spacings == -1..MaxSpacing

Radii == {2 * k : k \in 0..MaxR}

\* The entities a modelspace is drawn from.
Catalogue ==
    {Circle(0, 0, r) : r \in Radii}
    \cup {LwPolyline(TRUE, RectFar), LwPolyline(TRUE, BowTie), LwPolyline(FALSE, ClosedRing),
          Polyline(1, TwoPoints), Polyline(1, Wedge), Line(TwoPoints)}

\* Every modelspace of up to MaxEntities entities, and every modelspace that
\* puts one entity of the catalogue between two usable loops.
Docs ==
    UNION {[1..n -> Catalogue] : n \in 0..MaxEntities}
    \cup {<<a, u, b>> : a \in {Circle(0, 0, 2), LwPolyline(TRUE, RectFar)},
                        u \in Catalogue,
                        b \in {Circle(0, 0, 4), LwPolyline(TRUE, RectFar)}}

\* The drawings make_hatch_lines is exercised on with every spacing and angle.
HatchDocs ==
    {<<LwPolyline(TRUE, Rect(2 * k))>> : k \in 1..MaxR}
    \cup {<<Polyline(1, Wedge), LwPolyline(TRUE, RectFar)>>,
          <<LwPolyline(TRUE, UShape)>>,
          <<Circle(0, 0, 2), LwPolyline(TRUE, RectFar)>>}

InitLocals ==
    /\ i = 1
    /\ polys = <<>>
    /\ poly_src = <<>>
    /\ region = NoGeom
    /\ rot_region = NoGeom
    /\ bounds = NoBounds
    /\ x_start = 0
    /\ x_end = 0
    /\ probes = {}
    /\ segments = NoSegments
    /\ geometries = <<>>
    /\ geo_src = <<>>
    /\ output = NoOutput
    /\ err = None

\* main, mode 2, with the form's spacing and angle left alone: any drawing.
InitLoops ==
    /\ mode = "dxf"
    /\ doc \in Docs
    /\ outer_radius = 0
    /\ inner_radius = 0
    /\ spacing = 2
    /\ angle_deg = 0
    /\ pc = "extract"
    /\ y = 0 /\ y_first = 0 /\ y_stop = 0
    /\ InitLocals

\* main, mode 2, few drawings, any spacing and angle.
InitHatchDxf ==
    /\ mode = "dxf"
    /\ doc \in HatchDocs
    /\ outer_radius = 0
    /\ inner_radius = 0
    /\ spacing \in Spacings
    /\ angle_deg \in Angles
    /\ pc = "extract"
    /\ y = 0 /\ y_first = 0 /\ y_stop = 0
    /\ InitLocals

\* main, mode 1: any radii, spacing and angle.
InitAnnulus ==
    /\ mode = "annulus"
    /\ doc = <<>>
    /\ outer_radius \in Radii
    /\ inner_radius \in Radii
    /\ spacing \in Spacings
    /\ angle_deg \in Angles
    /\ pc = "annulus"
    /\ y = 0 /\ y_first = 0 /\ y_stop = 0
    /\ InitLocals

\* float_range(start, stop, step) called on its own.
InitRange ==
    /\ mode = "range"
    /\ doc = <<>>
    /\ outer_radius = 0
    /\ inner_radius = 0
    /\ spacing \in Spacings
    /\ angle_deg = 0
    /\ pc = "range"
    /\ y_first \in {0, Pow2(MantissaBits)}
    /\ y = y_first
    /\ y_stop \in {-1, MaxSpacing, Pow2(MantissaBits) + 4}
    /\ InitLocals

Init == InitLoops \/ InitHatchDxf \/ InitAnnulus \/ InitRange

InitScan == InitHatchDxf \/ InitAnnulus \/ InitRange

\* ------------------------------------------------------------ actions
\* A value computed once and used several times is bound by \E v \in {e}.

\* main, mode 1: region = build_annulus_region(outer_radius, inner_radius)
Annulus ==
    /\ pc = "annulus"
    /\ \E r \in {build_annulus_region(outer_radius, inner_radius)} :
           IF r.err # None
           THEN /\ pc' = "error"
                /\ err' = r.err
                /\ UNCHANGED region
           ELSE /\ pc' = "hatch"
                /\ region' = r.region
                /\ UNCHANGED err
    /\ UNCHANGED <<inputs, i, polys, poly_src, rot_region, bounds, x_start, x_end, y,
                   y_first, y_stop, probes, segments, geometries, geo_src, output>>

\* extract_loop_region_from_dxf: one pass of "for e in msp"
ExtractEntity ==
    /\ pc = "extract"
    /\ i <= Len(doc)
    /\ polys' = polys \o LoopPolys(doc[i])
    /\ poly_src' = IF Len(polys') > Len(polys) THEN Append(poly_src, i) ELSE poly_src
    /\ i' = i + 1
    /\ UNCHANGED <<inputs, pc, region, rot_region, bounds, x_start, x_end, y, y_first,
                   y_stop, probes, segments, geometries, geo_src, output, err>>

\* extract_loop_region_from_dxf: after the loop
ExtractRegion ==
    /\ pc = "extract"
    /\ i > Len(doc)
    /\ \E r \in {RegionResult(polys)} :
           IF r.err # None
           THEN /\ pc' = "error"
                /\ err' = r.err
                /\ UNCHANGED region
           ELSE /\ pc' = "hatch"
                /\ region' = r.region
                /\ UNCHANGED err
    /\ UNCHANGED <<inputs, i, polys, poly_src, rot_region, bounds, x_start, x_end, y,
                   y_first, y_stop, probes, segments, geometries, geo_src, output>>

\* make_hatch_lines up to the scan loop: the guard, the rotation, the bounds,
\* the margin, the empty segment list and the generator's start.
HatchEnter ==
    /\ pc = "hatch"
    /\ IF SpacingRejected(spacing)
       THEN /\ pc' = "error"
            /\ err' = "ValueError: spacing"
            /\ UNCHANGED <<rot_region, bounds, x_start, x_end, y, y_first, y_stop, segments>>
       ELSE \E rot \in {Rotate(region, -angle_deg)} :
            \E b \in {Bounds(rot)} :
            \E margin \in {spacing * 2} :
                /\ rot_region' = rot
                /\ bounds' = b
                /\ x_start' = b[1] - margin
                /\ x_end' = b[3] + margin
                /\ segments' = <<>>
                /\ y' = b[2] - margin
                /\ y_first' = b[2] - margin
                /\ y_stop' = b[4] + margin
                /\ pc' = "scan"
                /\ UNCHANGED err
    /\ UNCHANGED <<inputs, i, polys, poly_src, region, probes, geometries, geo_src, output>>

\* make_hatch_lines: one pass of "for y in float_range(...)"
ScanProbe ==
    /\ pc = "scan"
    /\ float_range_cond(y, y_stop)
    /\ \E inter \in {Intersection(rot_region, x_start, x_end, y)} :
           segments' = segments \o ProbeSegments(inter, y, angle_deg)
    /\ probes' = probes \cup {y}
    /\ y' = float_range_next(y, spacing)
    /\ UNCHANGED <<inputs, pc, i, polys, poly_src, region, rot_region, bounds, x_start,
                   x_end, y_first, y_stop, geometries, geo_src, output, err>>

\* make_hatch_lines: the generator is exhausted, return segments
ScanReturn ==
    /\ pc = "scan"
    /\ ~float_range_cond(y, y_stop)
    /\ pc' = IF mode = "dxf" THEN "boundaries" ELSE "write"
    /\ i' = 1
    /\ UNCHANGED <<inputs, polys, poly_src, region, rot_region, bounds, x_start, x_end, y,
                   y_first, y_stop, probes, segments, geometries, geo_src, output, err>>

\* extract_boundary_geometries_from_dxf: one pass of "for e in msp"
BoundaryEntity ==
    /\ pc = "boundaries"
    /\ i <= Len(doc)
    /\ geometries' = geometries \o BoundaryGeoms(doc[i])
    /\ geo_src' = IF Len(geometries') > Len(geometries) THEN Append(geo_src, i) ELSE geo_src
    /\ i' = i + 1
    /\ UNCHANGED <<inputs, pc, polys, poly_src, region, rot_region, bounds, x_start, x_end,
                   y, y_first, y_stop, probes, segments, output, err>>

\* extract_boundary_geometries_from_dxf: return geometries
BoundaryReturn ==
    /\ pc = "boundaries"
    /\ i > Len(doc)
    /\ pc' = "write"
    /\ UNCHANGED <<inputs, i, polys, poly_src, region, rot_region, bounds, x_start, x_end,
                   y, y_first, y_stop, probes, segments, geometries, geo_src, output, err>>

\* create_dxf_r12_with_lines: the perimeters, then one LINE per segment
CreateDxf ==
    /\ pc = "write"
    /\ output' =
          [boundaries |->
              IF mode = "annulus"
              THEN <<[type |-> "circle", center |-> <<0, 0>>, radius |-> outer_radius,
                      points |-> <<>>],
                     [type |-> "circle", center |-> <<0, 0>>, radius |-> inner_radius,
                      points |-> <<>>]>>
              ELSE geometries,
           lines |-> segments]
    /\ pc' = "done"
    /\ UNCHANGED <<inputs, i, polys, poly_src, region, rot_region, bounds, x_start, x_end,
                   y, y_first, y_stop, probes, segments, geometries, geo_src, err>>

\* float_range on its own: the loop condition holds, the value is yielded
RangeYield ==
    /\ pc = "range"
    /\ float_range_cond(y, y_stop)
    /\ pc' = "range_yield"
    /\ probes' = probes \cup {y}
    /\ UNCHANGED <<inputs, i, polys, poly_src, region, rot_region, bounds, x_start, x_end,
                   y, y_first, y_stop, segments, geometries, geo_src, output, err>>

\* float_range on its own: the consumer asks for the next value, the
\* generator resumes after the yield with "x += step"
RangeResume ==
    /\ pc = "range_yield"
    /\ y > y_first - RangeSpan
    /\ pc' = "range"
    /\ y' = float_range_next(y, spacing)
    /\ UNCHANGED <<inputs, i, polys, poly_src, region, rot_region, bounds, x_start, x_end,
                   y_first, y_stop, probes, segments, geometries, geo_src, output, err>>

\* float_range on its own: the loop condition fails, the generator ends
RangeStop ==
    /\ pc = "range"
    /\ ~float_range_cond(y, y_stop)
    /\ pc' = "range_done"
    /\ UNCHANGED <<inputs, i, polys, poly_src, region, rot_region, bounds, x_start, x_end,
                   y, y_first, y_stop, probes, segments, geometries, geo_src, output, err>>

Next ==
    \/ Annulus
    \/ ExtractEntity
    \/ ExtractRegion
    \/ HatchEnter
    \/ ScanProbe
    \/ ScanReturn
    \/ BoundaryEntity
    \/ BoundaryReturn
    \/ CreateDxf
    \/ RangeYield
    \/ RangeResume
    \/ RangeStop

Spec == Init /\ [][Next]_vars

\* The program is one synchronous thread: a step that can be taken is taken.
FairSpec == InitScan /\ [][Next]_vars /\ WF_vars(Next)


\* ------------------------------------------------------------ properties

SeqToSet(q) == {q[k] : k \in 1..Len(q)}

IsPolylineEntity(e) == e.dxftype \in {"LWPOLYLINE", "POLYLINE"}

\* The explicit closed flag of a polyline entity.
ClosedByFlag(e) ==
    \/ (e.dxftype = "LWPOLYLINE" /\ e.closed)
    \/ (e.dxftype = "POLYLINE" /\ FlagClosed(e.flags))

\* First and last vertex coincide.
ClosedByGeometry(e) == Len(e.points) >= 2 /\ e.points[1] = e.points[Len(e.points)]

\* A usable entity: a circle of positive radius, or a closed polyline of at
\* least 3 points whose polygon is valid and not empty.
Usable(e) ==
    \/ (e.dxftype = "CIRCLE" /\ e.radius > 0)
    \/ (/\ IsPolylineEntity(e)
        /\ ClosedByFlag(e)
        /\ Len(e.points) >= 3
        /\ IsValid(e.points)
        /\ ~IsEmpty(e.points))

UsableIndices(d) == {k \in 1..Len(d) : Usable(d[k])}

\* polys after the whole loop over a modelspace.
RECURSIVE PolysOf(_)
PolysOf(d) == IF d = <<>> THEN <<>> ELSE LoopPolys(Head(d)) \o PolysOf(Tail(d))

\* extract_loop_region_from_dxf has returned or raised.
Extracted == mode = "dxf" /\ pc # "extract"

\* extract_loop_region_from_dxf has just returned or raised.
ExtractEnded == mode = "dxf" /\ pc \in {"hatch", "error"}

\* make_hatch_lines has been called.
HatchCalled == mode \in {"annulus", "dxf"} /\ region # NoGeom /\ pc # "hatch"

\* make_hatch_lines has returned its segment list.
HatchReturned == pc \in {"boundaries", "write", "done"}

\* The geometry is a full axis-aligned rectangle: it covers the four
\* triangles of every cell of its bounding box.
IsRectangle(g) ==
    /\ g # NoGeom
    /\ g # {}
    /\ LET b == Bounds(g)
       IN  Cardinality(g) = (b[3] - b[1]) * (b[4] - b[2])

\* C1: two concentric circles give one region whose outer boundary is the
\* larger circle and whose single hole is the smaller one: a point between
\* the two loops is filled, a point inside the inner loop is not.
C1_NestingParity ==
    (/\ Extracted
     /\ Len(doc) = 2
     /\ doc[1].dxftype = "CIRCLE" /\ doc[2].dxftype = "CIRCLE"
     /\ doc[1].center = doc[2].center
     /\ doc[1].radius > 0 /\ doc[2].radius > 0
     /\ doc[1].radius # doc[2].radius)
    => LET rin  == Min2(doc[1].radius, doc[2].radius)
           rout == Max2(doc[1].radius, doc[2].radius)
           cx   == doc[1].center[1]
           cy   == doc[1].center[2]
       IN  /\ region = Buffer(cx, cy, rout) \ Buffer(cx, cy, rin)
           /\ Covers2(region, 2 * cx + rin + rout, 2 * cy)
           /\ ~Covers2(region, 2 * cx + rin, 2 * cy)

\* C2: every segment make_hatch_lines holds has both endpoints on or inside
\* the region and its midpoint in the filled area.
C2_FillContainment ==
    segments # NoSegments =>
        \A k \in 1..Len(segments) :
            LET s == segments[k]
            IN  /\ Covers(region, s[1], s[2])
                /\ Covers(region, s[3], s[4])
                /\ Covers2(region, s[1] + s[3], s[2] + s[4])

\* An annulus hatched at 90 degrees, with probes split by the hole.
C2_Witness ==
    /\ pc = "done"
    /\ mode = "annulus"
    /\ angle_deg = 90
    /\ spacing = 1
    /\ Len(segments) > Cardinality(probes \cap ((bounds[2])..(bounds[4])))

\* C3: a call of make_hatch_lines with spacing <= 0 fails before the region
\* is rotated, its bounds are read or a probe is generated, and returns no
\* segment list.
C3_InvalidSpacingRejected ==
    (HatchCalled /\ spacing <= 0) =>
        /\ pc = "error"
        /\ err = "ValueError: spacing"
        /\ rot_region = NoGeom
        /\ bounds = NoBounds
        /\ probes = {}
        /\ segments = NoSegments
        /\ output = NoOutput

C3_Witness == pc = "error" /\ err = "ValueError: spacing" /\ spacing = 0 /\ region # NoGeom

\* C4: a modelspace with no usable closed loop makes
\* extract_loop_region_from_dxf fail; no region, and never an empty region,
\* is returned.
C4_EmptyInputIsError ==
    /\ (Extracted /\ UsableIndices(doc) = {}) =>
           (pc = "error" /\ err \in {"RuntimeError: no closed loops", "RuntimeError: empty region"}
            /\ region = NoGeom)
    /\ region # NoGeom => region # {}

C4_Witness ==
    /\ pc = "error"
    /\ mode = "dxf"
    /\ Len(doc) = 2
    /\ doc[1].dxftype = "LWPOLYLINE"
    /\ doc[2].dxftype = "CIRCLE"
    /\ err = "RuntimeError: no closed loops"
    /\ region = NoGeom

\* C5: for a rectangle of height H, spacing S > 0 and angle 0 the number of
\* segments differs from floor(H / S) + 1 by at most 1.
C5_SpacingFidelity ==
    (HatchReturned /\ angle_deg = 0 /\ IsRectangle(region)) =>
        LET H == Bounds(region)[4] - Bounds(region)[2]
        IN  Abs(Len(segments) - ((H \div spacing) + 1)) <= 1

\* A rectangle of height 4 hatched at spacing 3: lines at y = 0 and y = 3.
C5_Witness ==
    /\ pc = "done"
    /\ angle_deg = 0
    /\ IsRectangle(region)
    /\ Bounds(region)[4] - Bounds(region)[2] = 4
    /\ spacing = 3
    /\ Len(segments) = 2

\* The straight pieces of every probe, rotated back.
ExpectedSegments ==
    UNION {{RotateSegment(l[1], p, l[2], p, angle_deg) :
               l \in SeqToSet(Intersection(rot_region, x_start, x_end, p).lines)} :
           p \in probes}

\* C6: make_hatch_lines emits one segment for every straight piece of every
\* probe's intersection with the region, whatever the shape of the
\* intersection result; only point pieces are dropped.
C6_EveryPieceKept ==
    HatchReturned =>
        /\ SeqToSet(segments) = ExpectedSegments
        /\ Len(segments) = Cardinality(ExpectedSegments)

\* C7: unusable entities are skipped without raising, every usable entity
\* before and after them contributes, and the result is that of the same
\* modelspace with the unusable entities removed.
C7_SkipUnusable ==
    ExtractEnded =>
        LET good == SelectSeq(doc, Usable)
            res  == RegionResult(PolysOf(good))
        IN  /\ SeqToSet(poly_src) = UsableIndices(doc)
            /\ Len(poly_src) = Cardinality(UsableIndices(doc))
            /\ polys = PolysOf(good)
            /\ IF res.err # None
               THEN pc = "error" /\ err = res.err /\ region = NoGeom
               ELSE region = res.region

\* A usable entity, an invalid closed polyline, a usable entity.
C7_Witness ==
    /\ Extracted
    /\ Len(doc) = 3
    /\ doc[1].dxftype = "CIRCLE" /\ Usable(doc[1])
    /\ doc[2].dxftype = "LWPOLYLINE" /\ ClosedByFlag(doc[2]) /\ ~IsValid(doc[2].points)
    /\ doc[3].dxftype = "LWPOLYLINE" /\ Usable(doc[3])
    /\ region # NoGeom
    /\ pc = "done"

\* C8: a polyline is accepted as a loop if its closed flag is set or its
\* first and last vertices coincide.
C8_ClosedByFlagOrGeometry ==
    Extracted =>
        \A k \in 1..Len(doc) :
            (/\ IsPolylineEntity(doc[k])
             /\ (ClosedByFlag(doc[k]) \/ ClosedByGeometry(doc[k]))
             /\ Len(Ring(doc[k].points)) >= 3
             /\ IsValid(doc[k].points))
            => k \in SeqToSet(poly_src)

\* A call of float_range that ends at once or steps forward.
RangeMustEnd == mode = "range" /\ (spacing > 0 \/ y_first > y_stop)

\* C9: float_range ends exactly when step > 0 or start > stop; the scan of
\* make_hatch_lines runs with step = spacing > 0 only, and every call of
\* make_hatch_lines returns a segment list or raises.
C9_ScanTermination ==
    /\ [](pc = "scan" => spacing > 0)
    /\ [](pc = "range_done" => RangeMustEnd)
    /\ (RangeMustEnd ~> pc = "range_done")
    /\ (pc = "hatch" ~> (HatchReturned \/ pc = "error"))

\* C10 as stated: the entities written as boundaries are exactly the
\* entities accepted into the region.
C10_BoundaryEqualsRegion ==
    (mode = "dxf" /\ pc \in {"write", "done"}) => SeqToSet(geo_src) = SeqToSet(poly_src)

\* C10 amended: every entity accepted into the region is written as a
\* boundary, and a boundary that was not accepted is a polyline with its
\* closed flag set and at least 3 points whose polygon is invalid.
C10_BoundaryCoversRegion ==
    (mode = "dxf" /\ pc \in {"write", "done"}) =>
        /\ SeqToSet(poly_src) \subseteq SeqToSet(geo_src)
        /\ \A k \in SeqToSet(geo_src) \ SeqToSet(poly_src) :
              /\ IsPolylineEntity(doc[k])
              /\ ClosedByFlag(doc[k])
              /\ Len(doc[k].points) >= 3
              /\ ~IsValid(doc[k].points)

\* A drawing with a filled loop and a self-intersecting closed polyline.
C10_Witness ==
    /\ mode = "dxf"
    /\ pc = "done"
    /\ poly_src # <<>>
    /\ SeqToSet(geo_src) # SeqToSet(poly_src)

====
